---- MODULE Spec2Model ----
(***************************************************************************)
(* Model of the Sorcerer class of src/src/dunder_methods.py.               *)
(*                                                                         *)
(* The heap holds Sorcerer instances (objs, each one the instance's        *)
(* attribute dictionary) and dict objects (dicts).  An instance's "spells" *)
(* attribute is a reference into dicts, so that two names for one dict are *)
(* one heap cell.  The caller owns one mapping of its own (ext) which it   *)
(* may hand to the constructor and mutate afterwards.                      *)
(***************************************************************************)
EXTENDS Integers, Sequences, FiniteSets, TLC

VARIABLES objs, dicts, ext, last, steps

vars == <<objs, dicts, ext, last, steps>>

(* ------------------------------ bounds --------------------------------- *)
MaxObjs == 2
MaxSteps == 3

Names == {"Aelar", "Lyra"}
NewLevels == {0, 1}
NewManas == {-1, 0, 1}
Operands == {-2, 1}
Divisors == {-2, 0, 2}
WriteLevels == {0, 2}
WriteManas == {-1, 0}
WriteHps == {5}
WriteNumSpells == {7}
DelNames == {"name", "level", "hp"}
SpellNames == {"fireball", "iceball"}
SetNames == {"fireball"}
Costs == {-1, 1}
Targets == {"none", "goblin"}

None == 0

(* ------------------------------ dicts ---------------------------------- *)
EmptyDict == [k \in {} |-> 0]

DictSet(d, k, v) == [x \in (DOMAIN d) \cup {k} |-> IF x = k THEN v ELSE d[x]]

DictDel(d, k) == [x \in (DOMAIN d) \ {k} |-> d[x]]

DictLen(d) == Cardinality(DOMAIN d)

\* Python truthiness of the constructor's spells argument (None or a dict).
Truthy(h, ref) == ref # None /\ DictLen(h[ref]) > 0

ExtContents == {EmptyDict} \cup {DictSet(EmptyDict, k, 1) : k \in SetNames}

(* --------------------------- construction ------------------------------ *)
\* Sorcerer.__init__: the four attributes are stored through
\* object.__setattr__, and spells is "spells or {}".
InitHeap(h, spells) == IF Truthy(h, spells) THEN h ELSE Append(h, EmptyDict)

InitSpells(h, spells) == IF Truthy(h, spells) THEN spells ELSE Len(h) + 1

Sorcerer(h, name, level, mana, spells) ==
    [name |-> name, level |-> level, mana |-> mana, spells |-> InitSpells(h, spells)]


(* ---------------------------- attribute layer -------------------------- *)
\* Variant without the alias: every name is looked up as it is.
GetAttributeNameNoAlias(name) == name

\* Sorcerer.__getattribute__: the name that is looked up in the instance.
GetAttributeName(name) == IF name = "hp" THEN "mana" ELSE name

\* Variant that answers num_spells with a count that is never refreshed.
GetAttrStale(o, h, name) ==
    IF name = "num_spells"
    THEN [ok |-> TRUE, val |-> 0]
    ELSE [ok |-> FALSE, val |-> 0]

\* Sorcerer.__getattr__, reached only when the normal lookup fails.
GetAttr(o, h, name) ==
    IF name = "num_spells"
    THEN [ok |-> TRUE, val |-> DictLen(h[o.spells])]
    ELSE [ok |-> FALSE, val |-> 0]

\* A read "s.<name>" from outside the class: __getattribute__, then __getattr__.
ReadAttr(o, h, name) ==
    IF GetAttributeName(name) \in DOMAIN o
    THEN [ok |-> TRUE, val |-> o[GetAttributeName(name)]]
    ELSE GetAttr(o, h, name)

\* self.<name> inside a method, for an attribute the instance has.
Get(o, name) == o[GetAttributeName(name)]

\* Variant that validates level only.
SetAttrRaisesLevelOnly(name, value) == name = "level" /\ value < 1

\* Variant with the level bound off by one (level 0 is stored).
SetAttrRaisesLevelZero(name, value) ==
    \/ name = "level" /\ value < 0
    \/ name = "mana" /\ value < 0

\* Sorcerer.__setattr__: the two validations, then object.__setattr__.
SetAttrRaises(name, value) ==
    \/ name = "level" /\ value < 1
    \/ name = "mana" /\ value < 0

SetAttrStore(o, name, value) ==
    [a \in (DOMAIN o) \cup {name} |-> IF a = name THEN value ELSE o[a]]

(* ------------------------ comparison and hashing ----------------------- *)
StrHash(s) == IF s = "Aelar" THEN 419 ELSE 733

\* hash((name, level)): a deterministic mix of the two components.
TupleHash(name, level) == (StrHash(name) * 31 + level) % 1024

\* Variant that hashes mana as well.
HashWithMana(o) == (TupleHash(Get(o, "name"), Get(o, "level")) * 31 + Get(o, "mana")) % 1024

\* Sorcerer.__hash__
Hash(o) == TupleHash(Get(o, "name"), Get(o, "level"))

\* Sorcerer.__eq__
Eq(a, b) == <<Get(a, "name"), Get(a, "level")>> = <<Get(b, "name"), Get(b, "level")>>

\* Python's lexicographic "<" on pairs of integers.
TupleLt(a1, a2, b1, b2) == a1 < b1 \/ (a1 = b1 /\ a2 < b2)

\* Sorcerer.__lt__
Lt(a, b) == TupleLt(Get(a, "level"), Get(a, "mana"), Get(b, "level"), Get(b, "mana"))

\* functools.total_ordering derives __gt__ from __lt__ and __eq__:
\* a > b is (not a < b) and a != b.
Gt(a, b) == ~Lt(a, b) /\ ~Eq(a, b)

(* ------------------------------- state --------------------------------- *)
Live == 1..Len(objs)

CanStep == steps < MaxSteps

CanAlloc == CanStep /\ Len(objs) < MaxObjs

Result(op, recv, arg, res, err, out) ==
    [op |-> op, recv |-> recv, arg |-> arg, res |-> res, err |-> err, out |-> out]

Init ==
    /\ objs = <<>>
    /\ dicts = <<>>
    /\ ext = None
    /\ last = Result("init", 0, 0, 0, "none", "none")
    /\ steps = 0

\* s = Sorcerer(name, level, mana) or Sorcerer(name, level, mana, spells=ext)
New(name, level, mana, spells) ==
    /\ CanAlloc
    /\ objs' = Append(objs, Sorcerer(dicts, name, level, mana, spells))
    /\ dicts' = InitHeap(dicts, spells)
    /\ last' = Result("new", 0, 0, Len(objs) + 1, "none", "none")
    /\ steps' = steps + 1
    /\ UNCHANGED ext

\* Variant that hands back the same dict instead of a copy.
DictCopyAlias(h, ref) == [heap |-> h, ref |-> ref]

\* dict.copy(): a new heap cell with the same entries, and its reference.
DictCopy(h, ref) == [heap |-> Append(h, h[ref]), ref |-> Len(h) + 1]

\* The Sorcerer(...) call shared by the four operators: name and level of the
\* receiver, the given mana, spells = self.spells.copy().
Derived(o, mana) ==
    LET c == DictCopy(dicts, Get(objs[o], "spells")) IN
    /\ objs' = Append(objs, Sorcerer(c.heap, Get(objs[o], "name"),
                                     Get(objs[o], "level"), mana, c.ref))
    /\ dicts' = InitHeap(c.heap, c.ref)
    /\ steps' = steps + 1
    /\ UNCHANGED ext

\* s + n
Add(o, n) ==
    /\ CanAlloc
    /\ Derived(o, Get(objs[o], "mana") + n)
    /\ last' = Result("add", o, n, Len(objs) + 1, "none", "none")

Max(a, b) == IF a >= b THEN a ELSE b

\* s - n
Sub(o, n) ==
    /\ CanAlloc
    /\ Derived(o, Max(0, Get(objs[o], "mana") - n))
    /\ last' = Result("sub", o, n, Len(objs) + 1, "none", "none")

\* s * n
Mul(o, n) ==
    /\ CanAlloc
    /\ Derived(o, Get(objs[o], "mana") * n)
    /\ last' = Result("mul", o, n, Len(objs) + 1, "none", "none")

\* Python's a // b for b # 0 (floor, also for a negative divisor).
FloorDiv(a, b) == IF b > 0 THEN a \div b ELSE (0 - a) \div (0 - b)

\* s / n
TrueDiv(o, n) ==
    /\ CanStep
    /\ IF n = 0
       THEN /\ last' = Result("truediv", o, n, 0, "ValueError", "none")
            /\ steps' = steps + 1
            /\ UNCHANGED <<objs, dicts, ext>>
       ELSE /\ CanAlloc
            /\ Derived(o, FloorDiv(Get(objs[o], "mana"), n))
            /\ last' = Result("truediv", o, n, Len(objs) + 1, "none", "none")

\* s.<name> = value from outside the class
SetAttr(o, name, value) ==
    /\ CanStep
    /\ IF SetAttrRaises(name, value)
       THEN /\ last' = Result("setattr_" \o name, o, value, 0, "ValueError", "none")
            /\ UNCHANGED objs
       ELSE /\ last' = Result("setattr_" \o name, o, value, 0, "none", "none")
            /\ objs' = [objs EXCEPT ![o] = SetAttrStore(objs[o], name, value)]
    /\ steps' = steps + 1
    /\ UNCHANGED <<dicts, ext>>

\* s += n: self.mana += other goes through __setattr__; returns self.
IAdd(o, n) ==
    /\ CanStep
    /\ IF SetAttrRaises("mana", Get(objs[o], "mana") + n)
       THEN /\ last' = Result("iadd", o, n, 0, "ValueError", "none")
            /\ UNCHANGED objs
       ELSE /\ last' = Result("iadd", o, n, o, "none", "none")
            /\ objs' = [objs EXCEPT ![o] =
                          SetAttrStore(objs[o], "mana", Get(objs[o], "mana") + n)]
    /\ steps' = steps + 1
    /\ UNCHANGED <<dicts, ext>>

Spells(o) == dicts[Get(objs[o], "spells")]

\* Variant of the mana test with <= in place of <.
LacksManaOrEqual(mana, cost) == mana <= cost

\* The test "self.mana < cost" of __call__.
LacksMana(mana, cost) == mana < cost

CastOut(target) == IF target = "none" THEN "cast" ELSE "cast_on"

\* s(spell_name, target): the arg of the result is the mana the returned
\* text reports for a cast, and the receiver's mana otherwise.
Call(o, spell_name, target) ==
    /\ CanStep
    /\ IF spell_name \notin DOMAIN Spells(o)
       THEN /\ last' = Result("call", o, Get(objs[o], "mana"), 0, "none", "unknown")
            /\ UNCHANGED objs
       ELSE IF LacksMana(Get(objs[o], "mana"), Spells(o)[spell_name])
       THEN /\ last' = Result("call", o, Get(objs[o], "mana"), 0, "none", "lacks")
            /\ UNCHANGED objs
       ELSE IF SetAttrRaises("mana", Get(objs[o], "mana") - Spells(o)[spell_name])
       THEN /\ last' = Result("call", o, Get(objs[o], "mana"), 0, "ValueError", "none")
            /\ UNCHANGED objs
       ELSE /\ objs' = [objs EXCEPT ![o] = SetAttrStore(objs[o], "mana",
                            Get(objs[o], "mana") - Spells(o)[spell_name])]
            /\ last' = Result("call", o, Get(objs'[o], "mana"), 0, "none", CastOut(target))
    /\ steps' = steps + 1
    /\ UNCHANGED <<dicts, ext>>

\* s[spell_name] = spell_level
SetItem(o, spell_name, spell_level) ==
    /\ CanStep
    /\ dicts' = [dicts EXCEPT ![Get(objs[o], "spells")] =
                    DictSet(Spells(o), spell_name, spell_level)]
    /\ last' = Result("setitem", o, spell_level, 0, "none", "none")
    /\ steps' = steps + 1
    /\ UNCHANGED <<objs, ext>>

\* del s[spell_name]
DelItem(o, spell_name) ==
    /\ CanStep
    /\ IF spell_name \in DOMAIN Spells(o)
       THEN /\ dicts' = [dicts EXCEPT ![Get(objs[o], "spells")] =
                            DictDel(Spells(o), spell_name)]
            /\ last' = Result("delitem", o, 0, 0, "none", "none")
       ELSE /\ last' = Result("delitem", o, 0, 0, "KeyError", "none")
            /\ UNCHANGED dicts
    /\ steps' = steps + 1
    /\ UNCHANGED <<objs, ext>>

\* Variant that protects name only.
DelAttrRaisesNameOnly(name) == name = "name"

\* Sorcerer.__delattr__: the core attributes cannot be deleted.
DelAttrRaises(name) == name \in {"name", "level"}

\* object.__delattr__ on an attribute the instance has.
AttrDel(o, name) == [a \in (DOMAIN o) \ {name} |-> o[a]]

\* del s.<name>: the out of the result tells the refusal of a core attribute
\* from the AttributeError of object.__delattr__ for a missing attribute.
DelAttr(o, name) ==
    /\ CanStep
    /\ IF DelAttrRaises(name)
       THEN /\ last' = Result("delattr_" \o name, o, 0, 0, "AttributeError", "core")
            /\ UNCHANGED objs
       ELSE IF name \in DOMAIN objs[o]
       THEN /\ last' = Result("delattr_" \o name, o, 0, 0, "none", "none")
            /\ objs' = [objs EXCEPT ![o] = AttrDel(objs[o], name)]
       ELSE /\ last' = Result("delattr_" \o name, o, 0, 0, "AttributeError", "none")
            /\ UNCHANGED objs
    /\ steps' = steps + 1
    /\ UNCHANGED <<dicts, ext>>

\* The caller builds the mapping it will pass as spells=...
ExtNew(contents) ==
    /\ CanStep
    /\ ext = None
    /\ dicts' = Append(dicts, contents)
    /\ ext' = Len(dicts) + 1
    /\ last' = Result("ext_new", 0, 0, 0, "none", "none")
    /\ steps' = steps + 1
    /\ UNCHANGED objs

\* The caller writes its own mapping: m[k] = v
ExtSet(k, v) ==
    /\ CanStep
    /\ ext # None
    /\ dicts' = [dicts EXCEPT ![ext] = DictSet(dicts[ext], k, v)]
    /\ last' = Result("ext_set", 0, v, 0, "none", "none")
    /\ steps' = steps + 1
    /\ UNCHANGED <<objs, ext>>

\* The caller deletes from its own mapping: del m[k]
ExtDel(k) ==
    /\ CanStep
    /\ ext # None
    /\ k \in DOMAIN dicts[ext]
    /\ dicts' = [dicts EXCEPT ![ext] = DictDel(dicts[ext], k)]
    /\ last' = Result("ext_del", 0, 0, 0, "none", "none")
    /\ steps' = steps + 1
    /\ UNCHANGED <<objs, ext>>

Next ==
    \/ \E name \in Names, level \in NewLevels, mana \in NewManas, spells \in {None, ext} :
          New(name, level, mana, spells)
    \/ \E o \in Live, n \in Operands : Add(o, n)
    \/ \E o \in Live, n \in Operands : Sub(o, n)
    \/ \E o \in Live, n \in Operands : Mul(o, n)
    \/ \E o \in Live, n \in Divisors : TrueDiv(o, n)
    \/ \E o \in Live, n \in Operands : IAdd(o, n)
    \/ \E o \in Live, k \in SpellNames, t \in Targets : Call(o, k, t)
    \/ \E o \in Live, v \in WriteLevels : SetAttr(o, "level", v)
    \/ \E o \in Live, v \in WriteManas : SetAttr(o, "mana", v)
    \/ \E o \in Live, v \in WriteHps : SetAttr(o, "hp", v)
    \/ \E o \in Live, v \in WriteNumSpells : SetAttr(o, "num_spells", v)
    \/ \E o \in Live, name \in DelNames : DelAttr(o, name)
    \/ \E o \in Live, k \in SetNames, v \in Costs : SetItem(o, k, v)
    \/ \E o \in Live, k \in SetNames : DelItem(o, k)
    \/ \E d \in ExtContents : ExtNew(d)
    \/ \E k \in SetNames, v \in Costs : ExtSet(k, v)
    \/ \E k \in SetNames : ExtDel(k)

Spec == Init /\ [][Next]_vars

(* ------------------------------- claims -------------------------------- *)
Valid(o) == Get(o, "level") >= 1 /\ Get(o, "mana") >= 0

\* C1: every existing Caster, the ones returned by the operators included,
\* has level >= 1 and mana >= 0 in every reachable state.
C1_AlwaysValid == \A o \in Live : Valid(objs[o])

\* C2: construction fails with a ValueError and yields no Caster when
\* level < 1 or mana < 0, and succeeds otherwise.
C2_NewValidates ==
    [][\A name \in Names, level \in NewLevels, mana \in NewManas, spells \in {None, ext} :
          (last'.op = "new" /\ New(name, level, mana, spells)) =>
             IF level < 1 \/ mana < 0
             THEN last'.err = "ValueError" /\ objs' = objs
             ELSE last'.err = "none" /\ Len(objs') = Len(objs) + 1]_vars

\* C3: the Caster's spell book is never the caller's mapping: a write of the
\* caller's mapping changes no Caster's spells, and a container set/delete on
\* a Caster leaves the caller's mapping as it was.
C3_NoAlias ==
    [][/\ last'.op \in {"ext_set", "ext_del"} =>
             \A o \in Live : Valid(objs[o]) => dicts'[Get(objs'[o], "spells")] = Spells(o)
       /\ (last'.op \in {"setitem", "delitem"} /\ ext # None /\ Valid(objs[last'.recv])) =>
             dicts'[ext] = dicts[ext]]_vars

DistinctKeys(a, b) ==
    <<Get(a, "level"), Get(a, "mana")>> # <<Get(b, "level"), Get(b, "mana")>>

ExactlyOne(p, q, r) == (p /\ ~q /\ ~r) \/ (~p /\ q /\ ~r) \/ (~p /\ ~q /\ r)

\* C4: for two Casters (level >= 1, mana >= 0) with distinct (level, mana),
\* exactly one of a < b, a == b, a > b holds.
C4_Trichotomy ==
    \A a \in Live, b \in Live :
        (Valid(objs[a]) /\ Valid(objs[b]) /\ DistinctKeys(objs[a], objs[b])) =>
            ExactlyOne(Lt(objs[a], objs[b]), Eq(objs[a], objs[b]), Gt(objs[a], objs[b]))

\* C5: add and multiply on a Caster (level >= 1, mana >= 0) fail with a
\* ValueError, constructing no Caster, when the resulting mana would be negative.
C5_AddMulReject ==
    [][\A o \in Live, n \in Operands :
          /\ (last'.op = "add" /\ Add(o, n) /\ Valid(objs[o]) /\ Get(objs[o], "mana") + n < 0) =>
                (last'.err = "ValueError" /\ objs' = objs)
          /\ (last'.op = "mul" /\ Mul(o, n) /\ Valid(objs[o]) /\ Get(objs[o], "mana") * n < 0) =>
                (last'.err = "ValueError" /\ objs' = objs)]_vars

Operators == {"add", "sub", "mul", "truediv"}

\* C6: a successful add, subtract, multiply or divide returns a new Caster
\* with the receiver's name and level and a spell book that is a new dict
\* with the receiver's entries, referenced by nothing else, and leaves the
\* receiver and every existing dict as they were; no step rebinds a Caster's
\* spells, and a container set/delete changes only the receiver's own dict;
\* a successful addInPlace returns the receiver, creates no Caster and adds
\* n to the receiver's mana.
C6_OperatorsPure ==
    [][/\ (last'.op \in Operators /\ last'.err = "none") =>
            /\ last'.res = Len(objs) + 1
            /\ Len(objs') = Len(objs) + 1
            /\ Get(objs'[last'.res], "name") = Get(objs[last'.recv], "name")
            /\ Get(objs'[last'.res], "level") = Get(objs[last'.recv], "level")
            /\ Get(objs'[last'.res], "spells") > Len(dicts)
            /\ dicts'[Get(objs'[last'.res], "spells")] = Spells(last'.recv)
            /\ \A o \in Live : objs'[o] = objs[o]
            /\ \A d \in 1..Len(dicts) : dicts'[d] = dicts[d]
       /\ \A o \in Live : Get(objs'[o], "spells") = Get(objs[o], "spells")
       /\ last'.op \in {"setitem", "delitem"} =>
            \A d \in 1..Len(dicts) :
                d # Get(objs[last'.recv], "spells") => dicts'[d] = dicts[d]
       /\ (last'.op = "iadd" /\ last'.err = "none") =>
            /\ last'.res = last'.recv
            /\ Len(objs') = Len(objs)
            /\ Get(objs'[last'.recv], "mana") = Get(objs[last'.recv], "mana") + last'.arg
            /\ dicts' = dicts]_vars

C6_Witness ==
    /\ last.op = "add"
    /\ last.res # 0
    /\ DictLen(Spells(last.res)) > 0
    /\ Valid(objs[last.recv])
    /\ Get(objs[last.res], "mana") = Get(objs[last.recv], "mana") + 1

\* C7: invoke never raises and decides three ways on the state before the
\* call: unknown spell (nothing changes), mana < cost (nothing changes),
\* otherwise mana becomes mana - cost and the outcome reports that remaining
\* mana; name, level and spells are unchanged in all three.
C7_InvokeThreeWay ==
    [][\A o \in Live, k \in SpellNames :
          (last'.op = "call" /\ last'.recv = o /\ \E t \in Targets : Call(o, k, t)) =>
             /\ last'.err = "none"
             /\ dicts' = dicts
             /\ \A a \in {"name", "level", "spells"} : Get(objs'[o], a) = Get(objs[o], a)
             /\ \A p \in Live \ {o} : objs'[p] = objs[p]
             /\ IF k \notin DOMAIN Spells(o)
                THEN last'.out = "unknown" /\ objs' = objs
                ELSE IF Get(objs[o], "mana") < Spells(o)[k]
                THEN last'.out = "lacks" /\ objs' = objs
                ELSE /\ last'.out \in {"cast", "cast_on"}
                     /\ Get(objs'[o], "mana") = Get(objs[o], "mana") - Spells(o)[k]
                     /\ last'.arg = Get(objs'[o], "mana")]_vars

C7_Witness ==
    /\ last.op = "call"
    /\ last.out = "cast"
    /\ Valid(objs[last.recv])
    /\ "fireball" \in DOMAIN Spells(last.recv)
    /\ Spells(last.recv)["fireball"] = 1
    /\ Get(objs[last.recv], "mana") = 0

\* C8: a write of level < 1, a write of mana < 0 and an addInPlace whose sum
\* is negative fail with a ValueError and leave the whole state as it was; a
\* write of level >= 1 or of mana >= 0 stores the value.
C8_WritesValidated ==
    [][\A o \in Live :
          /\ \A v \in WriteLevels :
                (last'.op = "setattr_level" /\ SetAttr(o, "level", v)) =>
                   IF v < 1
                   THEN last'.err = "ValueError" /\ objs' = objs /\ dicts' = dicts
                   ELSE last'.err = "none" /\ ReadAttr(objs'[o], dicts', "level").val = v
          /\ \A v \in WriteManas :
                (last'.op = "setattr_mana" /\ SetAttr(o, "mana", v)) =>
                   IF v < 0
                   THEN last'.err = "ValueError" /\ objs' = objs /\ dicts' = dicts
                   ELSE last'.err = "none" /\ ReadAttr(objs'[o], dicts', "mana").val = v
          /\ \A n \in Operands :
                (last'.op = "iadd" /\ IAdd(o, n) /\ Get(objs[o], "mana") + n < 0) =>
                   last'.err = "ValueError" /\ objs' = objs /\ dicts' = dicts]_vars

C8_Witness ==
    /\ last.op = "iadd"
    /\ last.err = "ValueError"
    /\ Valid(objs[last.recv])
    /\ Get(objs[last.recv], "mana") > 0

EqHashConsistent(a, b) ==
    /\ Eq(a, b) <=> (Get(a, "name") = Get(b, "name") /\ Get(a, "level") = Get(b, "level"))
    /\ Eq(a, b) => Hash(a) = Hash(b)

\* C9: equality is name and level, equal Casters hash alike, and a step that
\* mutates only mana or spells (addInPlace, invoke, a mana write, container
\* set/delete) changes no Caster's hash.
C9_EqHash ==
    [][/\ \A a \in Live, b \in Live : EqHashConsistent(objs[a], objs[b])
       /\ \A a \in 1..Len(objs'), b \in 1..Len(objs') : EqHashConsistent(objs'[a], objs'[b])
       /\ last'.op \in {"iadd", "call", "setattr_mana", "setitem", "delitem"} =>
             \A o \in Live : Hash(objs'[o]) = Hash(objs[o])]_vars

C9_Witness ==
    /\ last.op = "iadd"
    /\ last.err = "none"
    /\ \E b \in Live \ {last.recv} :
          /\ Eq(objs[last.recv], objs[b])
          /\ Get(objs[b], "mana") # Get(objs[last.recv], "mana")

\* C10: a read of hp returns what a read of mana returns, in every reachable
\* state, also after a write to the name hp.
C10_HpIsMana ==
    \A o \in Live : ReadAttr(objs[o], dicts, "hp") = ReadAttr(objs[o], dicts, "mana")

C10_Witness ==
    /\ last.op = "iadd"
    /\ last.err = "none"
    /\ "hp" \in DOMAIN objs[last.recv]
    /\ objs[last.recv]["hp"] # Get(objs[last.recv], "mana")

\* C11: on a Caster that has no stored attribute num_spells (none is stored
\* by construction or by any container operation), a read of num_spells
\* succeeds and returns the number of entries of the spell book as it is at
\* that instant, after every container set, overwrite and delete.
C11_NumSpellsIsLen ==
    \A o \in Live :
        "num_spells" \notin DOMAIN objs[o] =>
            ReadAttr(objs[o], dicts, "num_spells") =
                [ok |-> TRUE, val |-> Cardinality(DOMAIN Spells(o))]

C11_Witness ==
    /\ last.op = "setitem"
    /\ "num_spells" \notin DOMAIN objs[last.recv]
    /\ Cardinality(DOMAIN Spells(last.recv)) = 1
    /\ ReadAttr(objs[last.recv], dicts, "num_spells").val = 1

\* C12: a delete of name or of level fails with the AttributeError for a core
\* attribute in every state, and leaves every Caster and every dict as it
\* was; so every Caster has a name and a level in every state.
C12_CoreUndeletable ==
    [][/\ \A o \in Live, name \in {"name", "level"} :
             (last'.op = "delattr_" \o name /\ last'.recv = o /\ DelAttr(o, name)) =>
                 /\ last'.err = "AttributeError"
                 /\ last'.out = "core"
                 /\ objs' = objs
                 /\ dicts' = dicts
       /\ \A o \in 1..Len(objs') : {"name", "level"} \subseteq DOMAIN objs'[o]]_vars

C12_Witness ==
    /\ last.op = "delattr_level"
    /\ last.err = "AttributeError"
    /\ "hp" \in DOMAIN objs[last.recv]
    /\ Valid(objs[last.recv])

\* C13: a Caster with level >= 1 and mana >= 0 keeps both through every
\* step (addInPlace, invoke with a positive or a negative cost, writes of
\* mana or level, container set/delete, on it or on any other Caster); a
\* Caster with level < 1 or mana < 0 is one that was constructed so, by the
\* constructor or by an operator, or was so before the step.
C13_InPlaceKeepsValid ==
    [][/\ \A o \in Live : Valid(objs[o]) => Valid(objs'[o])
       /\ \A o \in 1..Len(objs') :
             ~Valid(objs'[o]) =>
                 \/ o \in Live /\ ~Valid(objs[o])
                 \/ /\ o = Len(objs) + 1
                    /\ last'.op \in {"new"} \cup Operators
                    /\ last'.res = o]_vars

C13_Witness ==
    /\ last.op = "call"
    /\ last.out = "cast"
    /\ "fireball" \in DOMAIN Spells(last.recv)
    /\ Spells(last.recv)["fireball"] = -1
    /\ Get(objs[last.recv], "mana") = 1
    /\ Valid(objs[last.recv])
====
